---- MODULE Spec2Model ----
(***************************************************************************)
(* Model of src/app.py (Google Discover Profile Finder).                   *)
(*                                                                         *)
(* A Python str is a sequence of code points (0 .. 0x10FFFF, lone          *)
(* surrogates included, as json.loads produces them from \udXXX escapes);  *)
(* a Python bytes object is a sequence of numbers 0 .. 255.                *)
(*                                                                         *)
(* Two specifications:                                                     *)
(*   SpecFn  one call of encode_mid_to_discover_url (lines 8-16) on an     *)
(*           argument drawn from FnInputs, in two steps (lines 10-11, then *)
(*           lines 12-16);                                                 *)
(*   Spec    the result loop of the Search handler (lines 67-99) over a    *)
(*           list of result items drawn from ItemPool; SpecLive adds the   *)
(*           fairness of a script that runs to completion.                 *)
(***************************************************************************)
EXTENDS Integers, Sequences, FiniteSets, TLC

VARIABLES
    arg,                    \* SpecFn: the argument the function was called with
    mid,                    \* SpecFn: the local variable mid (line 8, reassigned line 11)
    fpc,                    \* SpecFn: position in the function
    ret,                    \* SpecFn: what the call produced (a return value or an exception)
    items,                  \* Spec: data.get("itemListElement", []) (line 67)
    idx,                    \* Spec: the loop index of line 74 (enumerate, start=1)
    pc,                     \* Spec: position in the handler
    discover_profile_url,   \* Spec: the local of lines 88 and 91
    ui,                     \* Spec: the st.* calls issued so far, in order
    calls                   \* Spec: the calls of encode_mid_to_discover_url made so far

fnVars == <<arg, mid, fpc, ret>>
loopVars == <<items, idx, pc, discover_profile_url, ui, calls>>
vars == <<arg, mid, fpc, ret, items, idx, pc, discover_profile_url, ui, calls>>

----------------------------------------------------------------------------
(* Bounds of the model *)

\* longest body of a short input string (every string over BodyAlphabet up to it)
MaxBody == 2
\* how far around the 255-byte limit the long inputs reach, in bytes
Near == 4
\* length of the overlong token ("a" * 300 in the spec's scenario)
HugeLen == 300
\* longest list of result items
MaxItems == 2

----------------------------------------------------------------------------
(* Program constants *)

\* bytes([...]) accepts the values of range(0, 256) only (line 13)
ByteLimit == 256
\* the marker byte 0x0A (line 13)
Marker == 10
\* mid[3:] (line 11)
KgLen == 3

\* "kg:" (line 10)
KG == <<107, 103, 58>>
\* "kg:/m/" and "kg:/g/" (line 89)
KG_M == <<107, 103, 58, 47, 109, 47>>
KG_G == <<107, 103, 58, 47, 103, 47>>
\* "https://profile.google.com/cp/" (line 16)
UrlPrefix == <<104, 116, 116, 112, 115, 58, 47, 47, 112, 114, 111, 102, 105, 108, 101, 46, 103, 111, 111, 103, 108, 101, 46, 99, 111, 109, 47, 99, 112, 47>>
\* "Could not encode MID to Discover URL: " (line 97)
WarnHead == <<67, 111, 117, 108, 100, 32, 110, 111, 116, 32, 101, 110, 99, 111, 100, 101, 32, 77, 73, 68, 32, 116, 111, 32, 68, 105, 115, 99, 111, 118, 101, 114, 32, 85, 82, 76, 58, 32>>
\* the f-string of lines 93-94: head "[", middle "](", tail ")"
SuccessHead == <<9989, 32, 42, 42, 80, 111, 115, 115, 105, 98, 108, 101, 32, 68, 105, 115, 99, 111, 118, 101, 114, 32, 80, 114, 111, 102, 105, 108, 101, 32, 85, 82, 76, 58, 42, 42, 32, 91>>
SuccessMid == <<93, 40>>
SuccessTail == <<41>>
\* the text of line 99
InfoText == <<9888, 65039, 32, 77, 73, 68, 32, 100, 111, 101, 115, 32, 110, 111, 116, 32, 109, 97, 116, 99, 104, 32, 101, 120, 112, 101, 99, 116, 101, 100, 32, 96, 47, 109, 47, 96, 32, 111, 114, 32, 96, 47, 103, 47, 96, 32, 102, 111, 114, 109, 97, 116, 46>>
\* the default "-" of result.get("@id", "-") (line 78)
Dash == <<45>>
\* the text of line 70 and the two halves of the f-string of line 72
NoResultsText == <<10060, 32, 78, 111, 32, 114, 101, 115, 117, 108, 116, 115, 32, 102, 111, 117, 110, 100, 32, 102, 111, 114, 32, 116, 104, 105, 115, 32, 101, 110, 116, 105, 116, 121, 46>>
FoundHead == <<70, 111, 117, 110, 100, 32>>
FoundTail == <<32, 114, 101, 115, 117, 108, 116, 40, 115, 41, 46>>

\* str(e) of the ValueError bytes() raises: "bytes must be in range(0, 256)"
ValueErrorMsg == <<98, 121, 116, 101, 115, 32, 109, 117, 115, 116, 32, 98, 101, 32, 105, 110, 32, 114, 97, 110, 103, 101, 40, 48, 44, 32, 50, 53, 54, 41>>
\* the parts of str(e) of the UnicodeEncodeError str.encode raises:
\* "'utf-8' codec can't encode character", " in position ", ": surrogates not allowed"
CodecHead == <<39, 117, 116, 102, 45, 56, 39, 32, 99, 111, 100, 101, 99, 32, 99, 97, 110, 39, 116, 32, 101, 110, 99, 111, 100, 101, 32, 99, 104, 97, 114, 97, 99, 116, 101, 114>>
InPosition == <<32, 105, 110, 32, 112, 111, 115, 105, 116, 105, 111, 110, 32>>
SurrogatesTail == <<58, 32, 115, 117, 114, 114, 111, 103, 97, 116, 101, 115, 32, 110, 111, 116, 32, 97, 108, 108, 111, 119, 101, 100>>

\* the base64url alphabet A-Z a-z 0-9 - _ and the padding character "="
B64Alphabet == <<65, 66, 67, 68, 69, 70, 71, 72, 73, 74, 75, 76, 77, 78, 79, 80, 81, 82, 83, 84, 85, 86, 87, 88, 89, 90, 97, 98, 99, 100, 101, 102, 103, 104, 105, 106, 107, 108, 109, 110, 111, 112, 113, 114, 115, 116, 117, 118, 119, 120, 121, 122, 48, 49, 50, 51, 52, 53, 54, 55, 56, 57, 45, 95>>
PadChar == <<61>>

----------------------------------------------------------------------------
(* Strings *)

\* s.startswith(p)
StartsWith(s, p) == Len(s) >= Len(p) /\ SubSeq(s, 1, Len(p)) = p

\* s[n:]
DropFirst(s, n) == SubSeq(s, n + 1, Len(s))

\* c * n
Rep(c, n) == [i \in 1..n |-> c]

\* whether t occurs in s (t in s)
Contains(s, t) ==
    \E i \in 0..(Len(s) - Len(t)) : SubSeq(s, i + 1, i + Len(t)) = t

\* str(n) of a non-negative int
RECURSIVE Decimal(_)
Decimal(n) ==
    IF n < 10 THEN <<48 + n>> ELSE Decimal(n \div 10) \o <<48 + (n % 10)>>

\* one lowercase hexadecimal digit
HexDigit(d) == IF d < 10 THEN 48 + d ELSE 87 + d

\* "%04x" % c
Hex4(c) ==
    <<HexDigit((c \div 4096) % 16), HexDigit((c \div 256) % 16),
      HexDigit((c \div 16) % 16), HexDigit(c % 16)>>

----------------------------------------------------------------------------
(* str.encode("utf-8") (line 12) *)

\* a lone surrogate code point, U+D800 .. U+DFFF: the utf-8 codec refuses it
IsSurrogate(c) == c >= 55296 /\ c <= 57343

\* the UTF-8 bytes of one code point that is no surrogate
Utf8Char(c) ==
    IF c < 128 THEN <<c>>
    ELSE IF c < 2048 THEN <<192 + (c \div 64), 128 + (c % 64)>>
    ELSE IF c < 65536
        THEN <<224 + (c \div 4096), 128 + ((c \div 64) % 64), 128 + (c % 64)>>
    ELSE <<240 + (c \div 262144), 128 + ((c \div 4096) % 64),
           128 + ((c \div 64) % 64), 128 + (c % 64)>>

\* the UTF-8 bytes of a string without surrogates, code point by code point
\* (a function, so that its argument is a value when the bytes are computed)
Utf8Bytes[s \in Seq(Nat)] ==
    IF Len(s) = 0 THEN <<>>
    ELSE IF Len(s) = 1 THEN Utf8Char(s[1])
    ELSE Utf8Bytes[SubSeq(s, 1, Len(s) \div 2)]
             \o Utf8Bytes[SubSeq(s, (Len(s) \div 2) + 1, Len(s))]

\* str(e) of the UnicodeEncodeError for s: the codec reports the first surrogate
\* and the run of surrogates that follows it, with 0-based positions
SurrogateMsg(s) ==
    LET start == CHOOSE i \in 1..Len(s) :
                     IsSurrogate(s[i]) /\ \A j \in 1..(i - 1) : ~IsSurrogate(s[j])
        end == CHOOSE e \in start..Len(s) :
                   /\ \A j \in start..e : IsSurrogate(s[j])
                   /\ (e = Len(s) \/ ~IsSurrogate(s[e + 1]))
    IN  IF end = start
        THEN CodecHead \o <<32, 39, 92, 117>> \o Hex4(s[start]) \o <<39>>
                 \o InPosition \o Decimal(start - 1) \o SurrogatesTail
        ELSE CodecHead \o <<115>> \o InPosition \o Decimal(start - 1) \o <<45>>
                 \o Decimal(end - 1) \o SurrogatesTail

\* mid.encode("utf-8"): the bytes, or the UnicodeEncodeError (a function, so
\* that the string is a value when it is scanned)
encode_utf8[s \in Seq(Nat)] ==
    IF \E i \in 1..Len(s) : IsSurrogate(s[i])
    THEN [kind |-> "raise", exc |-> "UnicodeEncodeError", val |-> SurrogateMsg(s)]
    ELSE [kind |-> "ok", exc |-> "", val |-> Utf8Bytes[s]]

----------------------------------------------------------------------------
(* base64.urlsafe_b64encode(payload).decode("utf-8") (line 15) *)

\* byte i of b, 0 past its end (the zero bits base64 fills the last group with)
ByteAt(b, i) == IF i >= 1 /\ i <= Len(b) THEN b[i] ELSE 0

\* the j-th character (0-based q within group k) of the base64 text of b
B64CharAt(b, k, q) ==
    LET x0 == ByteAt(b, 3 * k + 1)
        x1 == ByteAt(b, 3 * k + 2)
        x2 == ByteAt(b, 3 * k + 3)
    IN  IF q = 0 THEN B64Alphabet[(x0 \div 4) + 1]
        ELSE IF q = 1 THEN B64Alphabet[(x0 % 4) * 16 + (x1 \div 16) + 1]
        ELSE IF q = 2
            THEN IF 3 * k + 2 > Len(b) THEN PadChar[1]
                 ELSE B64Alphabet[(x1 % 16) * 4 + (x2 \div 64) + 1]
        ELSE IF 3 * k + 3 > Len(b) THEN PadChar[1]
             ELSE B64Alphabet[(x2 % 64) + 1]

\* the base64 text of a byte sequence, padding included (a function, so that
\* the bytes are a value when the characters are computed)
B64Text[b \in Seq(Nat)] ==
    [j \in 1..(4 * ((Len(b) + 2) \div 3)) |->
        B64CharAt(b, (j - 1) \div 4, (j - 1) % 4)]

\* an encoder that drops the trailing "="
urlsafe_b64encode_nopad(b) ==
    SelectSeq(B64Text[b], LAMBDA ch : ch # PadChar[1])

\* the base64url text of b, padding kept; its bytes are ASCII, so .decode("utf-8")
\* turns each byte into the code point of the same value
urlsafe_b64encode(b) == B64Text[b]

----------------------------------------------------------------------------
(* encode_mid_to_discover_url (lines 8-16) *)

\* a normalizer that strips every leading character of "kg:" (mid.lstrip("kg:"))
NormalizeLstrip(m) ==
    LET keep == {i \in 1..Len(m) : m[i] \notin {KG[1], KG[2], KG[3]}}
    IN  IF keep = {} THEN <<>>
        ELSE DropFirst(m, (CHOOSE i \in keep : \A j \in keep : i <= j) - 1)

\* a normalizer that strips the type segment too (mid[6:])
NormalizeStripType(m) ==
    IF StartsWith(m, KG) THEN DropFirst(m, Len(KG_M)) ELSE m

\* lines 10-11: if mid.startswith("kg:"): mid = mid[3:]
Normalize(m) ==
    IF StartsWith(m, KG) THEN DropFirst(m, KgLen) ELSE m

\* a prefix that wraps the length modulo 256 and never raises
PrefixWrapped(n) ==
    [kind |-> "ok", exc |-> "", val |-> <<Marker, n % ByteLimit>>]

\* line 13: bytes([0x0A, n]); bytes() raises ValueError for a value outside
\* range(0, 256)
Prefix(n) ==
    IF n >= 0 /\ n < ByteLimit
    THEN [kind |-> "ok", exc |-> "", val |-> <<Marker, n>>]
    ELSE [kind |-> "raise", exc |-> "ValueError", val |-> ValueErrorMsg]

\* a payload whose length byte counts the characters of mid, not its bytes
PayloadCharLen(m) ==
    LET mid_bytes == encode_utf8[m]
    IN  IF mid_bytes.kind = "raise" THEN mid_bytes
        ELSE LET prefix == Prefix(Len(m))
             IN  IF prefix.kind = "raise" THEN prefix
                 ELSE [kind |-> "ok", exc |-> "", val |-> prefix.val \o mid_bytes.val]

\* lines 12-14: mid_bytes, prefix, payload; the first exception raised ends them
Payload(m) ==
    LET mid_bytes == encode_utf8[m]
    IN  IF mid_bytes.kind = "raise" THEN mid_bytes
        ELSE LET prefix == Prefix(Len(mid_bytes.val))
             IN  IF prefix.kind = "raise" THEN prefix
                 ELSE [kind |-> "ok", exc |-> "", val |-> prefix.val \o mid_bytes.val]

\* lines 15-16 on a payload
UrlOf(payload) == UrlPrefix \o urlsafe_b64encode(payload)

\* the whole function: its return value, or the exception it raises
encode_mid_to_discover_url(m) ==
    LET payload == Payload(Normalize(m))
    IN  IF payload.kind = "raise" THEN payload
        ELSE [kind |-> "return", exc |-> "", val |-> UrlOf(payload.val)]

\* no value yet
NoRet == [kind |-> "none", exc |-> "", val |-> <<>>]

----------------------------------------------------------------------------
(* Inputs of SpecFn *)

\* "a", "/", "k", e-acute (2 bytes), the euro sign (3 bytes), an emoji (4 bytes),
\* a lone surrogate
BodyAlphabet == {97, 47, 107, 233, 8364, 128512, 55296}

\* the characters the long inputs repeat, one of each UTF-8 width
PadChars == {97, 233, 8364, 128512}

\* "", "kg:", "kg:/m/", "kg:/g/", "kg:/x/", "kg:kg:", "kg", "/m/", "KG:/m/", "kg:/m"
FnPrefixes ==
    { <<>>, KG, KG_M, KG_G, <<107, 103, 58, 47, 120, 47>>, KG \o KG,
      <<107, 103>>, <<47, 109, 47>>, <<75, 71, 58, 47, 109, 47>>,
      <<107, 103, 58, 47, 109>> }

ShortBodies == UNION { [1..n -> BodyAlphabet] : n \in 0..MaxBody }

\* the repeat counts that put w-byte characters within Near bytes of the limit,
\* whatever prefix of FnPrefixes precedes them
LongLens(w) ==
    { n \in 0..((ByteLimit + Near) \div w) :
        w * n >= ByteLimit - Len(KG \o KG) - Near - 1 /\ w * n <= ByteLimit + Near }

LongBodies ==
    UNION { { Rep(c, n) : n \in LongLens(Len(Utf8Char(c))) \cup {HugeLen} } : c \in PadChars }

FnInputs == { p \o b : p \in FnPrefixes, b \in ShortBodies \cup LongBodies }

----------------------------------------------------------------------------
(* SpecFn: one call of encode_mid_to_discover_url *)

LoopIdle ==
    /\ items = <<>>
    /\ idx = 0
    /\ pc = "idle"
    /\ discover_profile_url = NoRet
    /\ ui = <<>>
    /\ calls = <<>>

InitFn ==
    /\ arg \in FnInputs
    /\ mid = arg
    /\ fpc = "entry"
    /\ ret = NoRet
    /\ LoopIdle

\* lines 10-11
FnNormalize ==
    /\ fpc = "entry"
    /\ mid' = Normalize(mid)
    /\ fpc' = "normalized"
    /\ UNCHANGED <<arg, ret>>
    /\ UNCHANGED loopVars

\* lines 12-16, no exception
FnReturn ==
    /\ fpc = "normalized"
    /\ Payload(mid).kind = "ok"
    /\ ret' = [kind |-> "return", exc |-> "", val |-> UrlOf(Payload(mid).val)]
    /\ fpc' = "returned"
    /\ UNCHANGED <<arg, mid>>
    /\ UNCHANGED loopVars

\* lines 12-13 raise
FnRaise ==
    /\ fpc = "normalized"
    /\ Payload(mid).kind = "raise"
    /\ ret' = Payload(mid)
    /\ fpc' = "raised"
    /\ UNCHANGED <<arg, mid>>
    /\ UNCHANGED loopVars

NextFn == FnNormalize \/ FnReturn \/ FnRaise

SpecFn == InitFn /\ [][NextFn]_vars

----------------------------------------------------------------------------
(* The result loop (lines 67-99) *)

\* A JSON value is [type, str]: str holds the code points of a string and is
\* empty for the other types. An item of itemListElement is
\* [hasResult, hasId, id]: whether it has a "result", whether that has an "@id",
\* and the value of the "@id".
Str(s) == [type |-> "str", str |-> s]
NonStr(t) == [type |-> t, str |-> <<>>]

\* lines 75 and 78: item.get("result", {}).get("@id", "-")
MidOf(item) == IF item.hasResult /\ item.hasId THEN item.id ELSE Str(Dash)

\* a gate that accepts every string
GateAnyString(v) == v.type = "str"

\* a gate that tests "kg:/" only
GateAnyType(v) ==
    v.type = "str" /\ StartsWith(v.str, SubSeq(KG_M, 1, Len(KG) + 1))

\* line 89: isinstance(mid, str) and (mid.startswith("kg:/m/") or
\* mid.startswith("kg:/g/"))
Gate(v) ==
    v.type = "str" /\ (StartsWith(v.str, KG_M) \/ StartsWith(v.str, KG_G))

\* lines 92-95: the text of the success line
SuccessText(url) == SuccessHead \o url \o SuccessMid \o url \o SuccessTail

\* lines 88-91: the outcome of the gate and of the call inside the try, for the
\* identifier v: the URL returned, the exception raised, or nothing (no call)
TryEncode(v) == IF Gate(v) THEN encode_mid_to_discover_url(v.str) ELSE NoRet

\* a loop body that swallows the exception without reporting it
ItemCallsSilent(i, v, r) ==
    IF Gate(v)
    THEN IF r.kind = "return"
         THEN <<[idx |-> i, call |-> "markdown", text |-> SuccessText(r.val)]>>
         ELSE <<>>
    ELSE <<[idx |-> i, call |-> "info", text |-> InfoText]>>

\* a loop body that reports the exception with st.error
ItemCallsError(i, v, r) ==
    IF Gate(v)
    THEN IF r.kind = "return"
         THEN <<[idx |-> i, call |-> "markdown", text |-> SuccessText(r.val)]>>
         ELSE <<[idx |-> i, call |-> "error", text |-> WarnHead \o r.val]>>
    ELSE <<[idx |-> i, call |-> "info", text |-> InfoText]>>

\* lines 89-99: the st.* calls made for item i, whose identifier is v and whose
\* call of the encoder ended in r (the calls of lines 82-85 and 102-103 render
\* the item itself and are left out)
ItemCalls(i, v, r) ==
    IF Gate(v)
    THEN IF r.kind = "return"
         THEN <<[idx |-> i, call |-> "markdown", text |-> SuccessText(r.val)]>>
         ELSE <<[idx |-> i, call |-> "warning", text |-> WarnHead \o r.val]>>
    ELSE <<[idx |-> i, call |-> "info", text |-> InfoText]>>

\* a loop without the try/except of lines 90 and 96: the exception ends the run
ContinueAbort(i, raised) ==
    IF raised THEN "aborted" ELSE IF i < Len(items) THEN "loop" ELSE "done"

\* lines 74 and 96-97: the exception is caught inside the loop body, so the loop
\* goes on to the next item whether or not the encoding raised
Continue(i, raised) == IF i < Len(items) THEN "loop" ELSE "done"

----------------------------------------------------------------------------
(* Inputs of Spec *)

Surrogate == <<55296>>

\* the identifiers of the pool: "kg:/m/0k8z", "/m/0k8z", "kg:/x/unknown", "",
\* "kg:/g/" + "a" * HugeLen, "kg:/m/" + "a" * 252 (255 bytes once normalized),
\* "kg:/m/" + "a" * 253 (256 bytes), "kg:/g/", "kg:/m/" + a lone surrogate,
\* "kg:/g/" + e-acute + euro sign, "kg:kg:/m/a"
IdPool ==
    { KG_M \o <<48, 107, 56, 122>>,
      <<47, 109, 47, 48, 107, 56, 122>>,
      <<107, 103, 58, 47, 120, 47, 117, 110, 107, 110, 111, 119, 110>>,
      <<>>,
      KG_G \o Rep(97, HugeLen),
      KG_M \o Rep(97, ByteLimit - 1 - Len(<<47, 109, 47>>)),
      KG_M \o Rep(97, ByteLimit - Len(<<47, 109, 47>>)),
      KG_G,
      KG_M \o Surrogate,
      KG_G \o <<233, 8364>>,
      KG \o KG_M \o <<97>> }

\* result items: one per identifier of the pool, an "@id" that is a number, an
\* "@id" that is null, a result without "@id", an item without "result"
ItemPool ==
    { [hasResult |-> TRUE, hasId |-> TRUE, id |-> Str(s)] : s \in IdPool }
    \cup { [hasResult |-> TRUE, hasId |-> TRUE, id |-> NonStr(t)] : t \in {"int", "null"} }
    \cup { [hasResult |-> TRUE, hasId |-> FALSE, id |-> NonStr("null")],
           [hasResult |-> FALSE, hasId |-> FALSE, id |-> NonStr("null")] }

ItemLists == UNION { [1..n -> ItemPool] : n \in 0..MaxItems }

----------------------------------------------------------------------------
(* Spec: the result loop *)

FnIdle ==
    /\ arg = <<>>
    /\ mid = <<>>
    /\ fpc = "idle"
    /\ ret = NoRet

Init ==
    /\ items \in ItemLists
    /\ idx = 0
    /\ pc = "start"
    /\ discover_profile_url = NoRet
    /\ ui = <<>>
    /\ calls = <<>>
    /\ FnIdle

\* lines 69-70: no items
ShowNoResults ==
    /\ pc = "start"
    /\ Len(items) = 0
    /\ ui' = Append(ui, [idx |-> 0, call |-> "warning", text |-> NoResultsText])
    /\ pc' = "done"
    /\ UNCHANGED <<items, idx, discover_profile_url, calls>>
    /\ UNCHANGED fnVars

\* lines 71-72: some items; the loop starts at idx = 1
ShowFound ==
    /\ pc = "start"
    /\ Len(items) > 0
    /\ ui' = Append(ui, [idx |-> 0, call |-> "success",
                         text |-> FoundHead \o Decimal(Len(items)) \o FoundTail])
    /\ pc' = "loop"
    /\ idx' = 1
    /\ UNCHANGED <<items, discover_profile_url, calls>>
    /\ UNCHANGED fnVars

\* lines 74-99: one iteration of the loop, on items[idx]
ProcessItem ==
    /\ pc = "loop"
    /\ idx <= Len(items)
    /\ \E v \in {MidOf(items[idx])} :
        \E r \in {TryEncode(v)} :
           /\ calls' = IF Gate(v)
                       THEN Append(calls, [idx |-> idx, arg |-> v.str])
                       ELSE calls
           /\ discover_profile_url' = IF r.kind = "return" THEN r ELSE NoRet
           /\ ui' = ui \o ItemCalls(idx, v, r)
           /\ pc' = Continue(idx, r.kind = "raise")
           /\ idx' = IF pc' = "loop" THEN idx + 1 ELSE idx
    /\ UNCHANGED items
    /\ UNCHANGED fnVars

Next == ShowNoResults \/ ShowFound \/ ProcessItem

Spec == Init /\ [][Next]_vars

\* the script is synchronous and runs to its end: a step that can be taken is taken
SpecLive == Spec /\ WF_vars(Next)

----------------------------------------------------------------------------
(* What the properties are stated in: a decoder of base64url and of UTF-8,    *)
(* and the byte length of a string, each written independently of the encoder *)

\* the value of a base64url character, 64 for a character outside the alphabet
B64Value(ch) ==
    IF \E i \in 1..Len(B64Alphabet) : B64Alphabet[i] = ch
    THEN (CHOOSE i \in 1..Len(B64Alphabet) : B64Alphabet[i] = ch) - 1
    ELSE 64

\* the bytes a base64url text stands for
B64Decode(t) ==
    LET data == SelectSeq(t, LAMBDA ch : ch # 61)
        sx(i) == IF i <= Len(data) THEN B64Value(data[i]) ELSE 0
    IN  [n \in 1..((Len(data) * 6) \div 8) |->
            LET k == (n - 1) \div 3
                r == (n - 1) % 3
            IN  IF r = 0 THEN sx(4 * k + 1) * 4 + (sx(4 * k + 2) \div 16)
                ELSE IF r = 1 THEN (sx(4 * k + 2) % 16) * 16 + (sx(4 * k + 3) \div 4)
                ELSE (sx(4 * k + 3) % 4) * 64 + sx(4 * k + 4)]

\* the code point whose UTF-8 sequence starts at byte i of b
CodePointAt(b, i) ==
    LET c(j) == ByteAt(b, i + j) % 64
    IN  IF b[i] < 128 THEN b[i]
        ELSE IF b[i] < 224 THEN (b[i] - 192) * 64 + c(1)
        ELSE IF b[i] < 240 THEN (b[i] - 224) * 4096 + c(1) * 64 + c(2)
        ELSE (b[i] - 240) * 262144 + c(1) * 4096 + c(2) * 64 + c(3)

\* the string a UTF-8 byte sequence stands for
Utf8Decode(b) ==
    LET leads == SelectSeq([i \in 1..Len(b) |-> i],
                           LAMBDA i : b[i] < 128 \/ b[i] >= 192)
    IN  [j \in 1..Len(leads) |-> CodePointAt(b, leads[j])]

\* whether s has a UTF-8 encoding: no lone surrogate in it
Encodable(s) == \A i \in 1..Len(s) : s[i] < 55296 \/ s[i] > 57343

\* the number of bytes of the UTF-8 encoding of s: one per code point, and one
\* more from U+0080, from U+0800 and from U+10000
ByteLen(s) ==
    Len(s) + Cardinality({i \in 1..Len(s) : s[i] >= 128})
           + Cardinality({i \in 1..Len(s) : s[i] >= 2048})
           + Cardinality({i \in 1..Len(s) : s[i] >= 65536})

\* s begins with "kg:"
HasKgPrefix(s) == Len(s) >= 3 /\ s[1] = 107 /\ s[2] = 103 /\ s[3] = 58

\* s begins with "/m/" or "/g/"
HasTypeSegment(s) == Len(s) >= 3 /\ s[1] = 47 /\ s[2] \in {109, 103} /\ s[3] = 47

\* the part of a URL after "https://profile.google.com/cp/"
UrlPayload(url) == SubSeq(url, 31, Len(url))

\* the call of the function has ended
FnEnded == fpc \in {"returned", "raised"}

----------------------------------------------------------------------------
(* Properties of encode_mid_to_discover_url, under SpecFn *)

\* C1: for a normalized path p (the local mid) of at most 255 UTF-8 bytes the
\* function returns a URL whose payload, base64url-decoded, is the byte 0x0A,
\* then the byte length of p, then the UTF-8 bytes of p: the second byte is the
\* exact byte length and the bytes after the 2-byte header decode back to p.
C1_RecordRoundTrip ==
    (FnEnded /\ Encodable(mid) /\ ByteLen(mid) <= 255) =>
        /\ fpc = "returned"
        /\ ret.kind = "return"
        /\ LET record == B64Decode(UrlPayload(ret.val))
           IN  /\ Len(record) = 2 + ByteLen(mid)
               /\ record[1] = 10
               /\ record[2] = ByteLen(mid)
               /\ DropFirst(record, 2) = Utf8Bytes[mid]
               /\ Utf8Decode(DropFirst(record, 2)) = mid

\* a path of exactly 255 bytes with two-byte characters, reached by stripping kg:
C1_Witness ==
    /\ fpc = "returned"
    /\ ByteLen(mid) = 255
    /\ Len(mid) < 255
    /\ arg = KG \o mid

\* C2: for a normalized path of more than 255 UTF-8 bytes the function returns
\* no URL and raises the range error of bytes() (a ValueError, "bytes must be in
\* range(0, 256)"); the length is not wrapped. The bound is on the path after
\* kg: is removed: an argument of more than 255 bytes whose normalized path has
\* at most 255 is encoded.
C2_OverlongRejected ==
    /\ (FnEnded /\ Encodable(mid) /\ ByteLen(mid) > 255) =>
            /\ fpc = "raised"
            /\ ret.kind = "raise"
            /\ ret.exc = "ValueError"
            /\ ret.val = ValueErrorMsg
    /\ (FnEnded /\ Encodable(mid) /\ ByteLen(arg) > 255 /\ ByteLen(mid) <= 255) =>
            fpc = "returned"

\* a path of exactly 256 bytes is refused
C2_Witness ==
    /\ fpc = "raised"
    /\ ret.exc = "ValueError"
    /\ Encodable(mid)
    /\ ByteLen(mid) = 256

\* C3: for a path of at most 255 UTF-8 bytes (the empty path and a path of 255
\* bytes included) the function returns "https://profile.google.com/cp/", then
\* one or more characters of A-Z a-z 0-9 _ -, then the "=" padding of base64,
\* which is kept: the payload length is a multiple of 4 and the number of "="
\* is the one base64 gives a record of 2 + len bytes.
C3_UrlShape ==
    (FnEnded /\ Encodable(mid) /\ ByteLen(mid) <= 255) =>
        /\ fpc = "returned"
        /\ ret.kind = "return"
        /\ SubSeq(ret.val, 1, 30) = UrlPrefix
        /\ LET t == UrlPayload(ret.val)
               pad == (3 - ((2 + ByteLen(mid)) % 3)) % 3
               body == Len(t) - pad
           IN  /\ Len(t) % 4 = 0
               /\ Len(t) = 4 * ((2 + ByteLen(mid) + 2) \div 3)
               /\ body >= 1
               /\ \A i \in 1..body :
                      \/ t[i] \in 65..90
                      \/ t[i] \in 97..122
                      \/ t[i] \in 48..57
                      \/ t[i] \in {45, 95}
               /\ \A i \in (body + 1)..Len(t) : t[i] = 61

\* a path of exactly 255 bytes: a record of 257 bytes, whose base64 ends in "="
C3_Witness ==
    /\ fpc = "returned"
    /\ ByteLen(mid) = 255
    /\ ret.val[Len(ret.val)] = 61
    /\ arg = mid

\* C4: the normalizer removes one leading "kg:" and nothing else: called on
\* "kg:" + s it leaves s (also when s starts with kg:), and called on a string
\* that does not start with kg: (the empty string included) it leaves it as is.
C4_NormalizerStripsOneKg ==
    (fpc # "entry" /\ fpc # "idle") =>
        /\ HasKgPrefix(arg) => (Len(mid) = Len(arg) - 3 /\ arg = <<107, 103, 58>> \o mid)
        /\ ~HasKgPrefix(arg) => mid = arg

\* "kg:kg:..." loses its first kg: only
C4_Witness ==
    /\ fpc = "normalized"
    /\ HasKgPrefix(arg)
    /\ HasKgPrefix(mid)

----------------------------------------------------------------------------
(* What the properties of the result loop are stated in *)

\* the items the loop has finished with
Processed ==
    IF pc = "done" THEN 1..Len(items)
    ELSE IF pc = "loop" THEN 1..(idx - 1)
    ELSE IF pc = "aborted" THEN 1..idx
    ELSE {}

\* the st.* calls made for item i
CallsFor(i) == SelectSeq(ui, LAMBDA e : e.idx = i)

\* the calls of the encoder made for item i
EncoderCallsFor(i) == SelectSeq(calls, LAMBDA c : c.idx = i)

\* whether item i carries an "@id" that is a string, and that string
HasStringId(i) == items[i].hasResult /\ items[i].hasId /\ items[i].id.type = "str"
RawId(i) == items[i].id.str

\* the raw identifier of item i is a string that starts with kg:/m/ or kg:/g/
Accepted(i) ==
    /\ HasStringId(i)
    /\ HasKgPrefix(RawId(i))
    /\ HasTypeSegment(DropFirst(RawId(i), 3))

\* the three outcomes, as the calls that render them
GatedOut(i) == Len(CallsFor(i)) = 1 /\ CallsFor(i)[1].call = "info"
Encoded(i) == Len(CallsFor(i)) = 1 /\ CallsFor(i)[1].call = "markdown"
Rejected(i) == Len(CallsFor(i)) = 1 /\ CallsFor(i)[1].call = "warning"

\* the URL inside the text "... [url](url)" of a success line
UrlShown(i) ==
    LET text == CallsFor(i)[1].text
    IN  SubSeq(text, Len(SuccessHead) + 1,
               Len(SuccessHead) + ((Len(text) - Len(SuccessHead) - 3) \div 2))

\* the normalized path of an accepted item is too long for the length byte
Overflows(i) ==
    /\ Accepted(i)
    /\ Encodable(RawId(i))
    /\ ByteLen(DropFirst(RawId(i), 3)) > 255

----------------------------------------------------------------------------
(* Properties of the result loop, under Spec and SpecLive *)

\* C5: the encoder is called for an item if and only if its raw identifier is a
\* string that starts with kg:/m/ or kg:/g/, and then once, on the raw
\* identifier; every other item (another type segment, the empty string, no
\* "@id", no "result", an "@id" that is not a string) gets the format-mismatch
\* info and no call of the encoder, and the loop goes on.
C5_EncoderCalledIffGatePasses ==
    /\ \A k \in 1..Len(calls) : calls[k].idx \in Processed
    /\ pc \in {"start", "loop", "done"}
    /\ \A i \in Processed :
        /\ Accepted(i) <=> Len(EncoderCallsFor(i)) > 0
        /\ Accepted(i) => EncoderCallsFor(i) = <<[idx |-> i, arg |-> RawId(i)]>>
        /\ ~Accepted(i) => (GatedOut(i) /\ CallsFor(i)[1].text = InfoText)
        /\ Accepted(i) => ~GatedOut(i)

\* an "@id" that is no string is gated out and the next item is encoded
C5_Witness ==
    /\ pc = "done"
    /\ Len(items) = 2
    /\ items[1].hasId /\ items[1].id.type # "str"
    /\ GatedOut(1)
    /\ Accepted(2) /\ Len(EncoderCallsFor(2)) = 1

\* the outcome of every item, in each state
OutcomeInv ==
    \A i \in 1..Len(items) :
        /\ i \notin Processed => (Len(CallsFor(i)) = 0 /\ Len(EncoderCallsFor(i)) = 0)
        /\ i \in Processed =>
            /\ GatedOut(i) \/ Encoded(i) \/ Rejected(i)
            /\ GatedOut(i) => CallsFor(i)[1].text = InfoText
            /\ Encoded(i) => StartsWith(CallsFor(i)[1].text, SuccessHead)
            /\ Rejected(i) => StartsWith(CallsFor(i)[1].text, WarnHead)
            /\ (Encoded(i) \/ Rejected(i)) => Accepted(i)
            /\ Overflows(i) => Rejected(i)
            /\ Len(EncoderCallsFor(i)) <= 1

\* a step leaves every outcome reached as it is, and finishes at most one item
OutcomeStable ==
    /\ \A i \in Processed : i \in Processed' /\ CallsFor(i)' = CallsFor(i)
    /\ Cardinality(Processed') <= Cardinality(Processed) + 1
    /\ Len(calls') <= Len(calls) + 1

OutcomeOf(i) ==
    IF ~Accepted(i) THEN "info"
    ELSE IF ~Encodable(RawId(i)) \/ ByteLen(DropFirst(RawId(i), 3)) > 255 THEN "warning"
    ELSE "markdown"

\* the calls for the items come in the order of the list, and the outcome of an
\* item depends on the item alone
InOrderAndIndependent ==
    /\ \A k \in 1..Len(ui) : \A l \in 1..Len(ui) : k < l => ui[k].idx <= ui[l].idx
    /\ Processed \in {1..n : n \in 0..Len(items)}
    /\ \A i \in Processed :
        /\ Len(CallsFor(i)) = 1
        /\ CallsFor(i)[1].call = OutcomeOf(i)
        /\ \A j \in Processed :
               items[i] = items[j] => CallsFor(i)[1].text = CallsFor(j)[1].text

\* every item has reached its outcome
AllDone == pc = "done" /\ Processed = 1..Len(items) /\ \A i \in 1..Len(items) : Len(CallsFor(i)) = 1

\* C7: a format mismatch or an encoding failure on one item does not end the
\* run: every item of the list eventually has its outcome, the items are handled
\* one at a time in the order of the list, and the outcome of an item is the
\* same whatever the outcomes of the items before it.
C7_FailuresDoNotAbort == <>AllDone /\ []InOrderAndIndependent

\* a mismatch, then a failed encoding, and the run still ends with both reported
C7_Witness ==
    /\ pc = "done"
    /\ Len(items) >= 2
    /\ GatedOut(1)
    /\ Rejected(2)
    /\ \A i \in 3..Len(items) : Encoded(i)

\* C8 as stated: a length overflow after the gate is shown as a warning whose
\* text includes the identifier.
C8_WarningIncludesIdentifier ==
    \A i \in Processed :
        Overflows(i) =>
            /\ Rejected(i)
            /\ Contains(CallsFor(i)[1].text, RawId(i))

\* C8, amended: a length overflow after the gate is shown as a warning (not as
\* an error, not as the format-mismatch info) whose text is "Could not encode
\* MID to Discover URL: " followed by the message of the exception, "bytes must
\* be in range(0, 256)"; the identifier is not part of the warning.
C8_WarningCarriesExceptionText ==
    \A i \in Processed :
        Overflows(i) =>
            /\ Rejected(i)
            /\ CallsFor(i)[1].text = WarnHead \o ValueErrorMsg
            /\ ~Contains(CallsFor(i)[1].text, RawId(i))
            /\ ~Contains(CallsFor(i)[1].text, DropFirst(RawId(i), 3))

\* the overlong token of the scenario, "kg:/g/" + "a" * HugeLen, was warned about
C8_Witness ==
    /\ Len(items) >= 1
    /\ 1 \in Processed
    /\ Overflows(1)
    /\ Len(RawId(1)) > 256
    /\ Rejected(1)

\* C9: for every identifier that passes the gate the value that is encoded, the
\* raw identifier without its first 3 characters, still begins with /m/ or /g/;
\* the record inside every URL produced begins, after its header, with it.
C9_TypeSegmentKept ==
    /\ \A k \in 1..Len(calls) :
        /\ HasKgPrefix(calls[k].arg)
        /\ Normalize(calls[k].arg) = DropFirst(calls[k].arg, 3)
        /\ HasTypeSegment(Normalize(calls[k].arg))
    /\ \A i \in Processed :
        Encoded(i) =>
            LET path == Utf8Decode(DropFirst(B64Decode(UrlPayload(UrlShown(i))), 2))
            IN  HasTypeSegment(path) /\ path = DropFirst(RawId(i), 3)

\* "kg:/g/" alone: the path encoded is exactly "/g/"
C9_Witness ==
    /\ Len(items) >= 1
    /\ 1 \in Processed
    /\ Encoded(1)
    /\ Len(RawId(1)) = 6
    /\ B64Decode(UrlPayload(UrlShown(1))) = <<10, 3, 47, 103, 47>>

\* C10: over the identifiers that pass the gate and are encoded, the URL
\* determines the identifier: "kg:" followed by the decoded record without its
\* header is the raw identifier, so two different identifiers never get the
\* same URL; without the gate they would, since x and "kg:" + x encode alike.
C10_UrlDeterminesIdentifier ==
    /\ \A i \in Processed :
        Encoded(i) =>
            /\ <<107, 103, 58>>
                 \o Utf8Decode(DropFirst(B64Decode(UrlPayload(UrlShown(i))), 2)) = RawId(i)
            /\ \A j \in Processed :
                   (Encoded(j) /\ UrlShown(i) = UrlShown(j)) => RawId(i) = RawId(j)
    /\ \A i \in Processed :
        (HasStringId(i) /\ ~HasKgPrefix(RawId(i))) =>
            encode_mid_to_discover_url(RawId(i))
                = encode_mid_to_discover_url(<<107, 103, 58>> \o RawId(i))

\* two different identifiers encoded in one run, and their URLs differ
C10_Witness ==
    /\ pc = "done"
    /\ Len(items) = 2
    /\ Encoded(1) /\ Encoded(2)
    /\ RawId(1) # RawId(2)
    /\ UrlShown(1) # UrlShown(2)

====
